---------------------------- MODULE Spec2Model ----------------------------
(***************************************************************************)
(* A model of the news-clipping PDF summariser: the fan-out orchestrator   *)
(* process_uploaded_files (app.py), the report aggregator                  *)
(* display_html_report / generate_download_html (app.py) and the JSON      *)
(* extraction step of NewsArticleSummarizer.summarize_article              *)
(* (news_summarizer.py).                                                   *)
(*                                                                         *)
(* Python dictionaries are records whose absent keys read "none" (what     *)
(* dict.get returns) or FALSE (a key tested for truthiness).  The Korean   *)
(* key "상태" of a summary record is the field state, with "success" for   *)
(* "성공" and "error" for "오류".                                          *)
(***************************************************************************)
EXTENDS Integers, Sequences, FiniteSets, TLC

\* ------------------------------------------------------------- bounds
\* Largest number of documents in one upload.
MaxFiles == 2
\* Largest number of models the operator selects for one pass.
MaxModels == 3
\* Largest number of failures (unreadable document, failed LLM construction,
\* failed backend call, failed unlink) injected into one pass.
MaxFaults == 3
\* Longest backend reply, in tokens, fed to the JSON-extraction step.
MaxRawLen == 4
\* Largest number of "_"-separated segments of a file name.
MaxSegments == 5
\* Longest API key, in characters.
MaxKeyLen == 11
\* Largest number of script runs of one session.
MaxRuns == 2
\* Last day of the calendar looked at, counted from a Monday (day 0).
MaxDay == 62

\* ------------------------------------------------------ model registry
\* The aliases of the bundled default table, in sorted (Python str) order.
AliasOrder == <<"claude", "google", "openai">>

Aliases == {AliasOrder[i] : i \in 1..Len(AliasOrder)}

\* ModelConfig.get_actual_model: the table's value, or the alias itself.
pwc_model ==
    [a \in Aliases |->
        CASE a = "openai" -> "azure.gpt-4o"
          [] a = "claude" -> "bedrock.anthropic.claude3-sonnet"
          [] a = "google" -> "vertex_ai.gemini-1.5-pro"]

\* A lookup that answers an unknown alias with the fallback model.
mapping_get_or_fallback(model_mapping, user_model) ==
    IF user_model \in DOMAIN model_mapping THEN model_mapping[user_model] ELSE "gpt-4o-mini"

\* model_mapping.get(user_model, user_model)
mapping_get(model_mapping, user_model) ==
    IF user_model \in DOMAIN model_mapping THEN model_mapping[user_model] ELSE user_model

\* get_actual_model under the bundled default table.
get_actual_model(user_model) == mapping_get(pwc_model, user_model)

\* ------------------------------------------------------------- helpers
Range(s) == {s[i] : i \in 1..Len(s)}

\* The sequences over S of length lo..hi without repeated elements.
DistinctSeqs(S, lo, hi) ==
    UNION {{s \in [1..n -> S] : \A i, j \in 1..n : i # j => s[i] # s[j]} : n \in lo..hi}

\* sorted(list(S)) for a set of aliases.
Sorted(S) == SelectSeq(AliasOrder, LAMBDA a : a \in S)

\* The position of alias a in the sequence s (0 when absent).
IndexOf(s, a) == IF a \in Range(s) THEN CHOOSE i \in 1..Len(s) : s[i] = a ELSE 0

VARIABLES
    \* process_uploaded_files
    uploaded_files,   \* the uploaded documents, by name, in upload order
    models,           \* the selected aliases, in selection order
    pc,               \* the position in process_uploaded_files / main
    fi,               \* index of the document the outer loop is at
    mi,               \* index of the model the inner loop is at
    results,          \* the list results (BatchResults)
    file_results,     \* the dict file_results of the document in hand
    current_task,     \* the counter current_task
    progress_shown,   \* what progress_bar / status_text show
    tmp_files,        \* the temporary files that exist on disk
    \* what really happened, for the claims to refer to
    extracted,        \* document name -> "pending" | "ok" | "failed"
    unlinked,         \* document name -> "pending" | "ok" | "failed"
    started,          \* the work units begun, in order
    finished,         \* the work units ended, in order, with their outcome
    \* display_html_report
    report,           \* what the aggregate report rendered
    \* the JSON-extraction step of summarize_article
    raw,              \* result.content, a sequence of tokens
    llm_summary,      \* the dict llm_summary after the try/except
    \* summarize_article as a whole
    chain,            \* what building and invoking the chain does
    final_result,     \* the record summarize_article returns
    \* FilenameParser.parse_filename
    filename,         \* the file name, a sequence of characters
    today,            \* datetime.now() as "MM/DD"
    file_info,        \* the dict parse_filename returns
    \* ModelConfig and LLMFactory.get_model_info
    cfg_file,         \* config.yaml: absent, malformed, or its keys
    env,              \* the environment variables
    secrets,          \* the Streamlit secrets store
    config,           \* ModelConfig.config after _load_config
    answer,           \* what the one query made of the configuration returned
    \* main and setup_sidebar
    model_names,      \* the aliases setup_sidebar offers, in the order offered
    main_pc,          \* the position in main
    script_runs,      \* the number of the script run of this session
    summaries,        \* st.session_state.summaries
    processing,       \* st.session_state.processing
    widgets,          \* the values of the sidebar widgets in this run
    selected_models,  \* the model list setup_sidebar returned
    user_prompt,      \* the template setup_sidebar returned
    handed,           \* the arguments of the call of process_uploaded_files
    prompt_used,      \* the template the summarizers of the pass built from
    event,            \* what this run did with the submission or the clear
    before,           \* summaries as this run found it
    \* get_default_date_range
    date_today,       \* datetime.now(), in days, day 0 a Monday
    date_range        \* the pair get_default_date_range returned

orchVars == <<uploaded_files, models, pc, fi, mi, results, file_results, current_task,
              progress_shown, tmp_files, extracted, unlinked, started, finished, report>>

jsonVars == <<raw, llm_summary>>

sumVars == <<chain, final_result>>

nameVars == <<filename, today, file_info>>

\* Everything process_uploaded_files and the report leave alone.
configVars == <<cfg_file, env, secrets, config, answer>>

\* main: the session state, what setup_sidebar returned, and the submission.
mainVars == <<model_names, main_pc, script_runs, summaries, processing, widgets,
              selected_models, user_prompt, handed, prompt_used, event, before>>

\* get_default_date_range: the clock and the range returned.
dateVars == <<date_today, date_range>>

pureVars == <<jsonVars, sumVars, nameVars, configVars, mainVars, dateVars>>

vars == <<orchVars, pureVars>>


\* ---------------------------------------------------- records the code builds
\* A dict with no entries.
EmptyModels == [m \in {} |-> 0]

\* file_results of a document whose text was extracted (keys filename,
\* file_size, pages, models: no status and no error key).
NewFileResults(name) ==
    [filename |-> name, status |-> "none", error |-> FALSE, models |-> EmptyModels]

\* file_results built by the outer except handler.
FailedFileResult(name) ==
    [filename |-> name, status |-> "failed", error |-> TRUE, models |-> EmptyModels]

\* No document in hand.
NoFileResults == NewFileResults(0)

\* NewsArticleSummarizer.summarize_article: the record it returns when the
\* chain returned text ("ok") and when the chain raised ("raise"), which it
\* catches itself.  Neither record has a status or an error key.
summarize_article(outcome) ==
    [status |-> "none", error |-> FALSE,
     state |-> IF outcome = "ok" THEN "success" ELSE "error",
     user_model |-> "none", actual_model |-> "none"]

\* model_result after the three assignments that follow the call.
ModelResult(model, outcome) ==
    [summarize_article(outcome) EXCEPT !.user_model = model,
                                       !.actual_model = get_actual_model(model)]

\* The stub the inner except handler stores.
ModelFailedEntry(model) ==
    [status |-> "failed", error |-> TRUE, state |-> "none",
     user_model |-> model, actual_model |-> get_actual_model(model)]

\* file_results['models'][model] = entry
SetModel(fr, model, entry) ==
    [fr EXCEPT !.models = (model :> entry) @@ fr.models]

\* ------------------------------------------------ process_uploaded_files
\* total_tasks = len(uploaded_files) * len(models)
total_tasks == Len(uploaded_files) * Len(models)

\* A faulty variant of AdvanceTask: the counter is shown before it is advanced.
AdvanceTaskLate(ct) == ct

\* current_task += 1
AdvanceTask(ct) == ct + 1

\* A faulty variant of SkipTasks: the except handler does not count the
\* document's units.
SkipTasksForgotten(ct) == ct

\* current_task += len(models)
SkipTasks(ct) == ct + Len(models)

\* A faulty variant of CurrentModel: the inner loop runs over sorted(models).
CurrentModelSorted(j) == Sorted(Range(models))[j]

\* The model the inner loop hands out at its j-th turn: for model in models.
CurrentModel(j) == models[j]

\* The document the outer loop hands out at its i-th turn.
CurrentFile(i) == uploaded_files[i]

\* A faulty variant of NextModelIndex: a raising call also ends the turn of
\* the model after it.
NextModelIndexSkipping(j) == j + 2

\* The inner loop's next turn.
NextModelIndex(j) == j + 1

\* The outer loop's next turn.
NextFileIndex(i) == i + 1

Unit(name, model) == [file |-> name, model |-> model]

Shown(task, name, model) ==
    [visible |-> TRUE, task |-> task, total |-> total_tasks, file |-> name, model |-> model]

NoReport ==
    [rendered |-> FALSE, warning |-> FALSE, multi |-> FALSE, raised |-> FALSE,
     files |-> <<>>, blocks |-> <<>>, exported |-> FALSE, export |-> <<>>]

\* The failures injected so far, and the outcomes a step may still draw.
Faults ==
    Cardinality({i \in DOMAIN extracted : extracted[i] = "failed"})
    + Cardinality({i \in DOMAIN unlinked : unlinked[i] = "failed"})
    + Cardinality({k \in DOMAIN finished : finished[k].outcome # "ok"})

Fates == IF Faults < MaxFaults THEN BOOLEAN ELSE {TRUE}

OrchInit ==
    /\ uploaded_files \in {[i \in 1..n |-> i] : n \in 1..MaxFiles}
    /\ models \in DistinctSeqs(Aliases, 1, MaxModels)
    /\ pc = "loop"
    /\ fi = 1
    /\ mi = 1
    /\ results = <<>>
    /\ file_results = NoFileResults
    /\ current_task = 0
    /\ progress_shown = [visible |-> TRUE, task |-> 0, total |-> total_tasks,
                         file |-> 0, model |-> "none"]
    /\ tmp_files = {}
    /\ extracted = [i \in 1..Len(uploaded_files) |-> "pending"]
    /\ unlinked = [i \in 1..Len(uploaded_files) |-> "pending"]
    /\ started = <<>>
    /\ finished = <<>>
    /\ report = NoReport

\* The outer try up to the inner loop: the temporary file is written, then
\* PyMuPDFLoader.load() returns the pages or raises.  When it raises, the
\* outer except handler runs and the loop goes on to the next document.
LoadDocument ==
    /\ pc = "loop"
    /\ fi <= Len(uploaded_files)
    /\ tmp_files' = tmp_files \cup {CurrentFile(fi)}
    /\ \E loaded \in Fates :
         IF loaded
         THEN /\ extracted' = [extracted EXCEPT ![fi] = "ok"]
              /\ file_results' = NewFileResults(CurrentFile(fi))
              /\ mi' = 1
              /\ pc' = "models"
              /\ UNCHANGED <<fi, results, current_task>>
         ELSE /\ extracted' = [extracted EXCEPT ![fi] = "failed"]
              /\ current_task' = SkipTasks(current_task)
              /\ results' = Append(results, FailedFileResult(CurrentFile(fi)))
              /\ fi' = NextFileIndex(fi)
              /\ UNCHANGED <<file_results, mi, pc>>
    /\ UNCHANGED <<uploaded_files, models, progress_shown, unlinked, started, finished,
                   report, pureVars>>

\* The head of the inner loop's body: the counter is advanced and the
\* progress bar and the status text are updated.
ReportProgress ==
    /\ pc = "models"
    /\ mi <= Len(models)
    /\ current_task' = AdvanceTask(current_task)
    /\ progress_shown' = Shown(current_task', CurrentFile(fi), CurrentModel(mi))
    /\ started' = Append(started, Unit(CurrentFile(fi), CurrentModel(mi)))
    /\ pc' = "create"
    /\ UNCHANGED <<uploaded_files, models, fi, mi, results, file_results, tmp_files,
                   extracted, unlinked, finished, report, pureVars>>

\* PDFSummarizer(user_model=model), LLMFactory.create_llm(model) and the
\* NewsArticleSummarizer constructor: they return, or one of them raises and
\* the inner except handler stores the failed stub.
CreateLLM ==
    /\ pc = "create"
    /\ \E created \in Fates :
         IF created
         THEN /\ pc' = "invoke"
              /\ UNCHANGED <<file_results, finished, mi>>
         ELSE /\ file_results' =
                    SetModel(file_results, CurrentModel(mi), ModelFailedEntry(CurrentModel(mi)))
              /\ finished' = Append(finished,
                    [file |-> CurrentFile(fi), model |-> CurrentModel(mi), outcome |-> "llm_raise"])
              /\ mi' = NextModelIndex(mi)
              /\ pc' = "models"
    /\ UNCHANGED <<uploaded_files, models, fi, results, current_task, progress_shown,
                   tmp_files, extracted, unlinked, started, report, pureVars>>

\* news_summarizer.summarize_article(full_text, name): the backend call
\* returns text or raises; either way summarize_article returns a record,
\* which is stored under the model's alias.
SummarizeArticle ==
    /\ pc = "invoke"
    /\ \E returned \in Fates :
         LET outcome == IF returned THEN "ok" ELSE "raise"
         IN  /\ file_results' =
                   SetModel(file_results, CurrentModel(mi),
                            ModelResult(CurrentModel(mi), outcome))
             /\ finished' = Append(finished,
                   [file |-> CurrentFile(fi), model |-> CurrentModel(mi),
                    outcome |-> IF returned THEN "ok" ELSE "backend_raise"])
    /\ mi' = NextModelIndex(mi)
    /\ pc' = "models"
    /\ UNCHANGED <<uploaded_files, models, fi, results, current_task, progress_shown,
                   tmp_files, extracted, unlinked, started, report, pureVars>>

\* After the inner loop: results.append(file_results), then
\* os.unlink(tmp_file_path), which removes the file or raises.  When it
\* raises, the outer except handler runs (the append has already happened).
AppendAndUnlink ==
    /\ pc = "models"
    /\ mi > Len(models)
    /\ \E removed \in Fates :
         IF removed
         THEN /\ results' = Append(results, file_results)
              /\ tmp_files' = tmp_files \ {CurrentFile(fi)}
              /\ unlinked' = [unlinked EXCEPT ![fi] = "ok"]
              /\ UNCHANGED current_task
         ELSE /\ results' = Append(Append(results, file_results),
                                   FailedFileResult(CurrentFile(fi)))
              /\ current_task' = SkipTasks(current_task)
              /\ unlinked' = [unlinked EXCEPT ![fi] = "failed"]
              /\ UNCHANGED tmp_files
    /\ file_results' = NoFileResults
    /\ fi' = NextFileIndex(fi)
    /\ mi' = 1
    /\ pc' = "loop"
    /\ UNCHANGED <<uploaded_files, models, progress_shown, extracted, started, finished,
                   report, pureVars>>

\* The outer loop is over: the progress bar and the status text are
\* emptied and results is returned.
Return ==
    /\ pc = "loop"
    /\ fi > Len(uploaded_files)
    /\ progress_shown' = [progress_shown EXCEPT !.visible = FALSE]
    /\ pc' = "done"
    /\ UNCHANGED <<uploaded_files, models, fi, mi, results, file_results, current_task,
                   tmp_files, extracted, unlinked, started, finished, report, pureVars>>

\* ---------------------------------------------------- display_html_report
\* The filter of display_html_report: the models of r whose entry has no
\* status 'failed' and no truthy error.
successful_models(r) ==
    {m \in DOMAIN r.models : r.models[m].status # "failed" /\ ~r.models[m].error}

\* Whether r gets into successful_results.
InReport(r) == r.status # "failed" /\ successful_models(r) # {}

\* r_copy: r with its models cut down to the successful ones.
ReportCopy(r) ==
    [r EXCEPT !.models = [m \in successful_models(r) |-> r.models[m]]]

RECURSIVE successful_results(_)
successful_results(rs) ==
    IF rs = <<>> THEN <<>>
    ELSE (IF InReport(Head(rs)) THEN <<ReportCopy(Head(rs))>> ELSE <<>>)
         \o successful_results(Tail(rs))

\* models_used = sorted(list(models_used))
models_used(rs) ==
    Sorted(UNION {successful_models(rs[i]) :
                    i \in {j \in 1..Len(rs) : rs[j].status # "failed"}})

is_multi_model(rs) == Len(models_used(rs)) > 1

\* A rendered table: the file, the model whose data it shows and whether its
\* header carries the model's name.
Block(name, model, labelled) == [file |-> name, model |-> model, labelled |-> labelled]

\* The tables of one result in multi-model mode, one for each model of used
\* in turn; result['models'][model] raises KeyError for a model the result
\* does not hold, which ends the rendering.
RECURSIVE MultiBlocks(_, _)
MultiBlocks(result, used) ==
    IF used = <<>> THEN [blocks |-> <<>>, raised |-> FALSE]
    ELSE IF Head(used) \notin DOMAIN result.models
         THEN [blocks |-> <<>>, raised |-> TRUE]
         ELSE LET rest == MultiBlocks(result, Tail(used))
              IN  [blocks |-> <<Block(result.filename, Head(used), TRUE)>> \o rest.blocks,
                   raised |-> rest.raised]

\* The table of one result in single-model mode: model = models_used[0].
SingleBlocks(result, used) ==
    IF used[1] \notin DOMAIN result.models
    THEN [blocks |-> <<>>, raised |-> TRUE]
    ELSE [blocks |-> <<Block(result.filename, used[1], FALSE)>>, raised |-> FALSE]

\* The loop "for result in successful_results" of display_html_report.
RECURSIVE RenderBlocks(_, _, _)
RenderBlocks(srs, used, multi) ==
    IF srs = <<>> THEN [blocks |-> <<>>, raised |-> FALSE]
    ELSE LET one == IF multi THEN MultiBlocks(Head(srs), used)
                    ELSE SingleBlocks(Head(srs), used)
         IN  IF one.raised THEN one
             ELSE LET rest == RenderBlocks(Tail(srs), used, multi)
                  IN  [blocks |-> one.blocks \o rest.blocks, raised |-> rest.raised]

\* generate_download_html: the same two loops, over the lists it is handed.
RECURSIVE generate_download_html(_, _, _)
generate_download_html(srs, used, multi) ==
    IF srs = <<>> THEN [blocks |-> <<>>, raised |-> FALSE]
    ELSE LET one == IF multi THEN MultiBlocks(Head(srs), used)
                    ELSE SingleBlocks(Head(srs), used)
         IN  IF one.raised THEN one
             ELSE LET rest == generate_download_html(Tail(srs), used, multi)
                  IN  [blocks |-> one.blocks \o rest.blocks, raised |-> rest.raised]

\* display_html_report(results): nothing for an empty list, a warning when
\* nothing passed the filter, else the tables and then the export; a
\* KeyError while rendering leaves the tables rendered so far and no export.
display_html_report(rs) ==
    IF rs = <<>> THEN NoReport
    ELSE LET srs == successful_results(rs)
             used == models_used(rs)
             multi == is_multi_model(rs)
             shown == RenderBlocks(srs, used, multi)
             download == generate_download_html(srs, used, multi)
         IN  IF srs = <<>>
             THEN [NoReport EXCEPT !.rendered = TRUE, !.warning = TRUE]
             ELSE [rendered |-> TRUE, warning |-> FALSE, multi |-> multi,
                   raised |-> shown.raised \/ download.raised,
                   files |-> [i \in 1..Len(srs) |-> srs[i].filename],
                   blocks |-> shown.blocks,
                   exported |-> ~shown.raised /\ ~download.raised,
                   export |-> IF shown.raised THEN <<>> ELSE download.blocks]

\* main, after the pass returned: st.session_state.summaries = results and
\* display_html_report(st.session_state.summaries, date_range_str).
DisplayHtmlReport ==
    /\ pc = "done"
    /\ report' = display_html_report(results)
    /\ pc' = "shown"
    /\ UNCHANGED <<uploaded_files, models, fi, mi, results, file_results, current_task,
                   progress_shown, tmp_files, extracted, unlinked, started, finished,
                   pureVars>>

\* ------------------------------- summarize_article: the JSON-extraction step
\* The backend's reply is a sequence of tokens: the braces, the comma, the
\* member "핵심_요약": "A" (token K), the member "주요_내용": "B" (token D),
\* the key and colon of a member whose value is an object, "meta": (token N),
\* and prose holding no brace (token x).
Tokens == {"{", "}", ",", "K", "D", "N", "x"}

\* The two members of the dict of the except branch, as JSON text: the member
\* "핵심_요약": "요약 처리 중 오류가 발생했습니다." (token Kf) and the member
\* "주요_내용": "기사 내용을 처리할 수 없습니다." (token Df).
CoreMembers == {"K", "Kf"}

DetailMembers == {"D", "Df"}

\* The string a member token carries as its value.
MemberValue(tok) ==
    CASE tok = "K" -> "A"
      [] tok = "D" -> "B"
      [] tok = "Kf" -> "fallback_core"
      [] tok = "Df" -> "fallback_detail"
      [] OTHER -> "absent"

\* The dict of the except branch written out as JSON text.
FallbackText == <<"{", "Kf", ",", "Df", "}">>

\* The replies looked at: every text of up to MaxRawLen tokens, and the
\* fallback dict as JSON text.
RawTexts == UNION {[1..n -> Tokens] : n \in 0..MaxRawLen} \cup {FallbackText}

\* str.find(ch): the 0-based index of the first ch, or -1.
find(s, ch) ==
    IF \E i \in 1..Len(s) : s[i] = ch
    THEN (CHOOSE i \in 1..Len(s) : s[i] = ch /\ \A j \in 1..(i - 1) : s[j] # ch) - 1
    ELSE -1

\* str.rfind(ch): the 0-based index of the last ch, or -1.
rfind(s, ch) ==
    IF \E i \in 1..Len(s) : s[i] = ch
    THEN (CHOOSE i \in 1..Len(s) : s[i] = ch /\ \A j \in (i + 1)..Len(s) : s[j] # ch) - 1
    ELSE -1

\* A slice bound as Python reads it: a negative bound counts from the end,
\* and the bound is clamped to 0..len.
SliceBound(s, k) ==
    LET n == IF k < 0 THEN k + Len(s) ELSE k
    IN  IF n < 0 THEN 0 ELSE IF n > Len(s) THEN Len(s) ELSE n

\* s[a:b]
Slice(s, a, b) == SubSeq(s, SliceBound(s, a) + 1, SliceBound(s, b))

\* json.loads on the token language.  Each parser returns the position after
\* what it read, or 0 when the text is malformed at that place.
RECURSIVE ParseObject(_, _), ParseMembers(_, _), ParseMember(_, _)
ParseObject(s, i) ==
    IF i > Len(s) \/ s[i] # "{" THEN 0
    ELSE IF i + 1 <= Len(s) /\ s[i + 1] = "}" THEN i + 2
    ELSE LET j == ParseMembers(s, i + 1)
         IN  IF j # 0 /\ j <= Len(s) /\ s[j] = "}" THEN j + 1 ELSE 0

ParseMembers(s, i) ==
    LET j == ParseMember(s, i)
    IN  IF j = 0 THEN 0
        ELSE IF j <= Len(s) /\ s[j] = "," THEN ParseMembers(s, j + 1)
        ELSE j

ParseMember(s, i) ==
    IF i > Len(s) THEN 0
    ELSE IF s[i] \in CoreMembers \cup DetailMembers THEN i + 1
    ELSE IF s[i] = "N" THEN ParseObject(s, i + 1)
    ELSE 0

\* Whether json.loads(s) returns (a dict) rather than raising.
IsJson(s) == ParseObject(s, 1) = Len(s) + 1

\* The brace depth at position i of s: the members of the outermost object
\* of a well-formed s are at depth 1.
RECURSIVE Depth(_, _)
Depth(s, i) ==
    IF i = 0 THEN 0
    ELSE Depth(s, i - 1) + (IF s[i] = "{" THEN 1 ELSE IF s[i] = "}" THEN -1 ELSE 0)

\* The value json.loads keeps for a key of the outermost object: that of the
\* last member with the key, "absent" when no member has it.
LastValue(s, members) ==
    LET at == {j \in 1..Len(s) : Depth(s, j) = 1 /\ s[j] \in members}
    IN  IF at = {} THEN "absent"
        ELSE MemberValue(s[CHOOSE j \in at : \A k \in at : k <= j])

\* The dict json.loads returns, with the text it was read from.
Parsed(s) ==
    [done |-> TRUE, parsed |-> TRUE, text |-> s,
     core |-> LastValue(s, CoreMembers),
     detail |-> LastValue(s, DetailMembers)]

\* The fixed dict of the except branch.
Fallback ==
    [done |-> TRUE, parsed |-> FALSE, text |-> <<>>,
     core |-> "fallback_core", detail |-> "fallback_detail"]

NotYet ==
    [done |-> FALSE, parsed |-> FALSE, text |-> <<>>, core |-> "absent", detail |-> "absent"]

\* A slice that stops before the last closing brace.
json_str_exclusive(content) == Slice(content, find(content, "{"), rfind(content, "}"))

\* json_str = result.content[json_start:json_end]
json_str(content) == Slice(content, find(content, "{"), rfind(content, "}") + 1)

\* The try/except around json.loads.
extract_llm_summary(content) ==
    IF IsJson(json_str(content)) THEN Parsed(json_str(content)) ELSE Fallback

\* ------------------------------------------------------- FilenameParser
\* A file name is a sequence of characters.  The keys of the dict
\* parse_filename returns are the fields outlet ("매체"), date ("일자"),
\* group_tag ("GSP"), headline ("제목"), original ("원본_파일명") and
\* parse_succeeded ("파싱_성공").
DigitChars == {"0", "1", "5", "6"}

\* str.isdigit()
isdigit(s) == Len(s) > 0 /\ \A i \in 1..Len(s) : s[i] \in DigitChars

\* A stem that keeps the extension.
whole_name(name) == name

\* Path(filename).stem, for a name that holds no directory separator.
stem(name) ==
    LET i == rfind(name, ".")
    IN  IF 0 < i /\ i < Len(name) - 1 THEN Slice(name, 0, i) ELSE name

\* str.split(sep)
RECURSIVE split(_, _)
split(s, sep) ==
    LET i == find(s, sep)
    IN  IF i = -1 THEN <<s>>
        ELSE <<Slice(s, 0, i)>> \o split(Slice(s, i + 1, Len(s)), sep)

\* sep.join(parts)
RECURSIVE join(_, _)
join(parts, sep) ==
    IF Len(parts) = 0 THEN <<>>
    ELSE IF Len(parts) = 1 THEN parts[1]
    ELSE parts[1] \o <<sep>> \o join(Tail(parts), sep)

\* A month read from the last two characters.
MonthFromEnd(date_str) == Slice(date_str, 2, 4)

\* _format_date: "MMDD" becomes "MM/DD"; anything else becomes today's date.
MonthOf(date_str) == Slice(date_str, 0, 2)

DayOf(date_str) == Slice(date_str, 2, 4)

format_date(date_str, now) ==
    IF Len(date_str) = 4 /\ isdigit(date_str)
    THEN MonthOf(date_str) \o <<"/">> \o DayOf(date_str)
    ELSE now

\* The group tag "기타" of a name that is not of the expected shape.
Other == <<"o", "t", "h", "e", "r">>

\* The smallest number of "_"-separated parts of a name of the expected shape.
MinParts == 4

\* parse_filename.  Nothing in its try block can raise on a string, so the
\* except branch is not a case of its own.
parse_filename(name, now) ==
    LET name_without_ext == stem(name)
        parts == split(name_without_ext, "_")
    IN  IF Len(parts) >= MinParts
        THEN [outlet |-> parts[1],
              date |-> format_date(parts[2], now),
              group_tag |-> parts[3],
              headline |-> join(SubSeq(parts, 4, Len(parts)), "_"),
              original |-> name,
              parse_succeeded |-> TRUE]
        ELSE [outlet |-> <<>>,
              date |-> now,
              group_tag |-> Other,
              headline |-> name_without_ext,
              original |-> name,
              parse_succeeded |-> FALSE]

NoFileInfo ==
    [outlet |-> <<>>, date |-> <<>>, group_tag |-> <<>>, headline |-> <<>>,
     original |-> <<>>, parse_succeeded |-> FALSE]

\* The file names looked at: up to MaxSegments segments joined by "_", with
\* or without the extension.  The segments are an empty one, a word, a word
\* holding a dot, a four-digit date, a three-digit numeral and a four-character
\* segment that is not a numeral.
SegmentChoices ==
    {<<>>, <<"a">>, <<"b", ".", "c">>, <<"0", "6", "1", "5">>, <<"0", "6", "1">>,
     <<"0", "a", "1", "5">>}

Extensions == {<<>>, <<".", "p", "d", "f">>}

Filenames ==
    {join(segs, "_") \o ext :
        segs \in UNION {[1..n -> SegmentChoices] : n \in 1..MaxSegments},
        ext \in Extensions}

\* The values datetime.now().strftime("%m/%d") is given.
Todays == {<<"1", "1", "/", "0", "2">>, <<"0", "1", "/", "3", "1">>}

\* ------------------------------------------- summarize_article as a whole
\* The keys of the record summarize_article returns are the fields date,
\* group_tag, headline, outlet, original and parse_succeeded of the file
\* info, core ("핵심_요약"), detail ("주요_내용") and state ("상태"); the
\* timestamp "처리_일시" is left out.
NoFinalResult ==
    [returned |-> FALSE, date |-> <<>>, group_tag |-> <<>>, headline |-> <<>>,
     core |-> "absent", detail |-> "absent", outlet |-> <<>>, original |-> <<>>,
     parse_succeeded |-> FALSE, state |-> "none"]

\* A lookup that gives the default whenever the reply was not parsed.
GetCoreOfParsedOnly(llm) == IF llm.parsed THEN llm.core ELSE "no_summary"

\* A lookup whose default is the message of the except branch.
GetDetailOrFallback(llm) == IF llm.detail = "absent" THEN "fallback_detail" ELSE llm.detail

\* llm_summary.get("핵심_요약", "요약 없음")
GetCore(llm) == IF llm.core = "absent" THEN "no_summary" ELSE llm.core

\* llm_summary.get("주요_내용", "내용 없음")
GetDetail(llm) == IF llm.detail = "absent" THEN "no_detail" ELSE llm.detail

\* final_result of the try block.
FinalResult(llm, info, name) ==
    [returned |-> TRUE, date |-> info.date, group_tag |-> info.group_tag,
     headline |-> info.headline, core |-> GetCore(llm), detail |-> GetDetail(llm),
     outlet |-> info.outlet, original |-> name,
     parse_succeeded |-> info.parse_succeeded, state |-> "success"]

\* An error record that leaves the file info out.
ErrorResultBare(info, name) ==
    [returned |-> TRUE, date |-> <<>>, group_tag |-> <<>>, headline |-> <<>>,
     core |-> "error_core", detail |-> "fallback_detail", outlet |-> <<>>,
     original |-> name, parse_succeeded |-> FALSE, state |-> "error"]

\* The record of the outer except branch; its "핵심_요약" carries str(e).
ErrorResult(info, name) ==
    [returned |-> TRUE, date |-> info.date, group_tag |-> info.group_tag,
     headline |-> info.headline, core |-> "error_core", detail |-> "fallback_detail",
     outlet |-> info.outlet, original |-> name,
     parse_succeeded |-> info.parse_succeeded, state |-> "error"]

\* What building and invoking the chain does, with the prompt it is given:
\* PromptTemplate.from_template is called on a custom prompt only, and raises
\* on a malformed one; chain.invoke returns the reply or raises.
ChainBehaviours ==
    {<<"none", "returns">>, <<"none", "raises_invoke">>,
     <<"valid", "returns">>, <<"valid", "raises_invoke">>,
     <<"malformed", "raises_template">>}

\* ---------------------------------------------------------- ModelConfig
\* A text is a sequence of characters; a key of a dict, an environment
\* variable or a secret is either absent or set to a text.
Absent == [set |-> FALSE, text |-> <<>>]

Val(t) == [set |-> TRUE, text |-> t]

\* The truth value Python gives a looked-up text: None and "" are false.
Truthy(v) == v.set /\ v.text # <<>>

EmptyTable == [a \in {} |-> "none"]

NoTable == [set |-> FALSE, table |-> EmptyTable]

Table(t) == [set |-> TRUE, table |-> t]

\* 'your-api-key'
DefaultKey == <<"y", "o", "u", "r", "-", "a", "p", "i", "-", "k", "e", "y">>

DefaultUrl == <<"https://api.example.com/v1">>

OpenAIUrl == <<"https://api.openai.com/v1">>

\* _get_default_config
get_default_config ==
    [api_key |-> Val(DefaultKey), base_url |-> Val(DefaultUrl), api_base |-> Absent,
     pwc_model |-> Table(pwc_model)]

\* _override_with_env_vars
override_with_env_vars(cfg, e) ==
    LET key1 == IF Truthy(e.API_KEY) THEN e.API_KEY ELSE cfg.api_key
        key2 == IF Truthy(e.OPENAI_API_KEY) THEN e.OPENAI_API_KEY ELSE key1
        url1 == IF Truthy(e.BASE_URL) THEN e.BASE_URL ELSE cfg.base_url
        url2 == IF Truthy(e.OPENAI_BASE_URL) THEN e.OPENAI_BASE_URL ELSE url1
        base == IF Truthy(e.API_BASE) THEN e.API_BASE ELSE cfg.api_base
    IN  [cfg EXCEPT !.api_key = key2, !.base_url = url2, !.api_base = base]

\* _override_with_streamlit_secrets
override_with_streamlit_secrets(cfg, sec) ==
    [cfg EXCEPT !.api_key = IF sec.API_KEY.set THEN sec.API_KEY ELSE @,
                !.base_url = IF sec.BASE_URL.set THEN sec.BASE_URL ELSE @,
                !.pwc_model = IF sec.pwc_model.set THEN sec.pwc_model ELSE @]

\* The dict yaml.safe_load returns for a well-formed config.yaml.
FileConfig(file) ==
    [api_key |-> file.api_key, base_url |-> file.base_url, api_base |-> file.api_base,
     pwc_model |-> file.pwc_model]

\* _load_config: the file or, without one, the defaults; then the
\* environment; then the secrets.  A file that cannot be loaded raises, and
\* the except branch returns the defaults alone.
load_config(file, e, sec) ==
    IF file.kind = "malformed" THEN get_default_config
    ELSE override_with_streamlit_secrets(
             override_with_env_vars(
                 IF file.kind = "present" THEN FileConfig(file) ELSE get_default_config, e),
             sec)

\* get_api_key: self.config.get('api_key', '')
get_api_key(cfg) == IF cfg.api_key.set THEN cfg.api_key.text ELSE <<>>

\* get_base_url
get_base_url(cfg, e) ==
    LET base_url == IF Truthy(cfg.api_base) THEN cfg.api_base ELSE cfg.base_url
    IN  IF e.BASE_URL.set THEN e.BASE_URL.text
        ELSE IF Truthy(base_url) THEN base_url.text ELSE OpenAIUrl

\* get_openai_config
get_openai_config(cfg, e) ==
    [api_key |-> get_api_key(cfg), base_url |-> get_base_url(cfg, e)]

\* self.config.get('pwc_model', {})
model_mapping_of(cfg) == IF cfg.pwc_model.set THEN cfg.pwc_model.table ELSE EmptyTable

\* ModelConfig.get_actual_model under the loaded configuration.
config_get_actual_model(cfg, user_model) == mapping_get(model_mapping_of(cfg), user_model)

\* The aliases get_available_models has a description for.
model_descriptions ==
    {"openai", "claude", "claude3_5", "google", "openai_o1", "openai_o1-mini",
     "claude3_5_v2", "openai_o3_mini", "gemini_2.0_flash", "claude3_7"}

\* get_available_models, by its keys.
get_available_models(cfg) == model_descriptions \cap DOMAIN model_mapping_of(cfg)

\* The number of characters of the key get_model_info shows.
PreviewLen == 10

\* f"{openai_config['api_key'][:10]}..."
api_key_preview(api_key) == Slice(api_key, 0, PreviewLen) \o <<".", ".", ".">>

\* LLMFactory.get_model_info
get_model_info(cfg, e, user_model) ==
    [query |-> "get_model_info",
     user_model |-> user_model,
     actual_model |-> config_get_actual_model(cfg, user_model),
     api_key_preview |-> api_key_preview(get_openai_config(cfg, e).api_key),
     base_url |-> get_openai_config(cfg, e).base_url]

\* debug_model_config, without config_path_exists
debug_model_config(cfg) ==
    [query |-> "debug_model_config",
     config_loaded |-> TRUE,
     total_models_in_config |-> Cardinality(DOMAIN model_mapping_of(cfg)),
     models_in_config |-> DOMAIN model_mapping_of(cfg),
     available_models_count |-> Cardinality(get_available_models(cfg)),
     available_models |-> get_available_models(cfg)]

NoConfig ==
    [loaded |-> FALSE, api_key |-> Absent, base_url |-> Absent, api_base |-> Absent,
     pwc_model |-> NoTable]

Loaded(cfg) ==
    [loaded |-> TRUE, api_key |-> cfg.api_key, base_url |-> cfg.base_url,
     api_base |-> cfg.api_base, pwc_model |-> cfg.pwc_model]

NoAnswer == [query |-> "none"]

NoFile ==
    [kind |-> "absent", api_key |-> Absent, base_url |-> Absent, api_base |-> Absent,
     pwc_model |-> NoTable]

NoEnv ==
    [API_KEY |-> Absent, OPENAI_API_KEY |-> Absent, BASE_URL |-> Absent,
     OPENAI_BASE_URL |-> Absent, API_BASE |-> Absent]

NoSecrets == [API_KEY |-> Absent, BASE_URL |-> Absent, pwc_model |-> NoTable]

\* The tables a config.yaml and a secrets store are given.
FileTable == [a \in {"openai", "claude3_5"} |->
                 IF a = "openai" THEN "file.gpt-4o" ELSE "file.claude-3-5"]

SecretTable == [a \in {"openai"} |-> "secret.gpt-4o"]

\* The config files looked at: none, one that cannot be loaded, and one
\* with any of its four keys.
ConfigFiles ==
    {NoFile, [NoFile EXCEPT !.kind = "malformed"]}
    \cup [kind : {"present"},
          api_key : {Absent, Val(<<"f", "i", "l", "e", "-", "k", "e", "y">>)},
          base_url : {Absent, Val(<<"file:base_url">>)},
          api_base : {Absent, Val(<<"file:api_base">>)},
          pwc_model : {NoTable, Table(FileTable)}]

\* The environments looked at: each variable unset or set.
Environments ==
    [API_KEY : {Absent, Val(<<"e", "n", "v", "-", "k", "e", "y">>)},
     OPENAI_API_KEY : {Absent, Val(<<"o", "p", "e", "n", "a", "i", "-", "e", "n", "v", "-", "k", "e", "y">>)},
     BASE_URL : {Absent, Val(<<"env:BASE_URL">>)},
     OPENAI_BASE_URL : {Absent, Val(<<"env:OPENAI_BASE_URL">>)},
     API_BASE : {Absent, Val(<<"env:API_BASE">>)}]

\* The secrets stores looked at: each entry absent or present.
SecretStores ==
    [API_KEY : {Absent, Val(<<"s", "e", "c", "r", "e", "t", "-", "k", "e", "y">>)},
     BASE_URL : {Absent, Val(<<"secret:BASE_URL">>)},
     pwc_model : {NoTable, Table(SecretTable)}]

\* The aliases asked for: one of the default table and of both given
\* tables, one of the file's table only, one of no table.
UserModels == {"openai", "claude3_5", "gpt-5"}

\* The API keys looked at: every text of up to MaxKeyLen characters.
KeyChars == {"s", "k"}

KeyTexts == UNION {[1..n -> KeyChars] : n \in 0..MaxKeyLen}

ConfigIdle ==
    /\ cfg_file = NoFile
    /\ env = NoEnv
    /\ secrets = NoSecrets
    /\ config = NoConfig
    /\ answer = NoAnswer

\* ModelConfig(): _load_config
LoadConfig ==
    /\ pc = "config"
    /\ ~config.loaded
    /\ config' = Loaded(load_config(cfg_file, env, secrets))
    /\ UNCHANGED <<orchVars, jsonVars, sumVars, nameVars, mainVars, dateVars, cfg_file, env,
                 secrets, answer>>

Asked == config.loaded /\ answer = NoAnswer

\* model_config.get_actual_model(user_model)
GetActualModel ==
    /\ pc = "config"
    /\ Asked
    /\ \E user_model \in UserModels :
           answer' = [query |-> "get_actual_model", user_model |-> user_model,
                      actual_model |-> config_get_actual_model(config, user_model)]
    /\ UNCHANGED <<orchVars, jsonVars, sumVars, nameVars, mainVars, dateVars, cfg_file, env,
                 secrets, config>>

\* The model name of LLMFactory._create_fallback_llm.
FallbackModel == "gpt-4o-mini"

\* The outcomes of constructing ChatOpenAI, for the mapped model and for the
\* fallback model.
Constructions == {"returns", "raises"}

\* LLMFactory.create_llm(user_model): the client of the mapped model, the
\* client of the fallback model when building the first raised, and the
\* exception of the fallback when that was raised too.
create_llm(cfg, user_model, primary, fallback) ==
    IF primary = "returns"
    THEN [raised |-> FALSE, model |-> config_get_actual_model(cfg, user_model)]
    ELSE IF fallback = "returns"
         THEN [raised |-> FALSE, model |-> FallbackModel]
         ELSE [raised |-> TRUE, model |-> "none"]

\* One work unit of process_uploaded_files under the loaded configuration:
\* the client is created, the summarizer invokes it, and the entry records
\* the alias and model_config.get_actual_model(model).
WorkUnit ==
    /\ pc = "config"
    /\ Asked
    /\ \E user_model \in UserModels, primary \in Constructions, fallback \in Constructions :
           LET llm == create_llm(config, user_model, primary, fallback)
           IN  answer' = [query |-> "work_unit",
                          user_model |-> user_model,
                          status |-> IF llm.raised THEN "failed" ELSE "none",
                          invoked_model |-> llm.model,
                          actual_model |-> config_get_actual_model(config, user_model)]
    /\ UNCHANGED <<orchVars, jsonVars, sumVars, nameVars, mainVars, dateVars, cfg_file, env,
                 secrets, config>>

\* model_config.get_openai_config()
GetOpenaiConfig ==
    /\ pc = "config"
    /\ Asked
    /\ answer' = [query |-> "get_openai_config",
                  api_key |-> get_openai_config(config, env).api_key,
                  base_url |-> get_openai_config(config, env).base_url]
    /\ UNCHANGED <<orchVars, jsonVars, sumVars, nameVars, mainVars, dateVars, cfg_file, env,
                 secrets, config>>

\* LLMFactory.get_model_info(user_model)
GetModelInfo ==
    /\ pc = "config"
    /\ Asked
    /\ \E user_model \in UserModels :
           answer' = get_model_info(config, env, user_model)
    /\ UNCHANGED <<orchVars, jsonVars, sumVars, nameVars, mainVars, dateVars, cfg_file, env,
                 secrets, config>>

\* model_config.debug_model_config()
DebugModelConfig ==
    /\ pc = "config"
    /\ Asked
    /\ answer' = debug_model_config(config)
    /\ UNCHANGED <<orchVars, jsonVars, sumVars, nameVars, mainVars, dateVars, cfg_file, env,
                 secrets, config>>

\* The orchestrator at rest at position p, while a function is looked at alone.
OrchAt(p) ==
    /\ uploaded_files = <<>>
    /\ models = <<>>
    /\ pc = p
    /\ fi = 1
    /\ mi = 1
    /\ results = <<>>
    /\ file_results = NoFileResults
    /\ current_task = 0
    /\ progress_shown = [visible |-> FALSE, task |-> 0, total |-> 0, file |-> 0,
                         model |-> "none"]
    /\ tmp_files = {}
    /\ extracted = <<>>
    /\ unlinked = <<>>
    /\ started = <<>>
    /\ finished = <<>>
    /\ report = NoReport

OrchIdle == OrchAt("summarize")

JsonIdle ==
    /\ raw = <<>>
    /\ llm_summary = NotYet

SumIdle ==
    /\ chain = <<"none", "idle">>
    /\ final_result = NoFinalResult

NameIdle ==
    /\ filename = <<>>
    /\ today = <<>>
    /\ file_info = NoFileInfo

\* summarize_article when the chain returns the reply raw: the file name is
\* parsed, the JSON is extracted (step 3) and the record is put together.
ExtractJson ==
    /\ pc = "summarize"
    /\ chain[2] = "returns"
    /\ ~llm_summary.done
    /\ file_info' = parse_filename(filename, today)
    /\ llm_summary' = extract_llm_summary(raw)
    /\ final_result' = FinalResult(llm_summary', file_info', filename)
    /\ UNCHANGED <<orchVars, raw, chain, filename, today, configVars, mainVars, dateVars>>

\* summarize_article when the template or the call raises: the outer except
\* branch parses the file name and returns the error record.
ChainRaises ==
    /\ pc = "summarize"
    /\ chain[2] \in {"raises_template", "raises_invoke"}
    /\ ~final_result.returned
    /\ file_info' = parse_filename(filename, today)
    /\ final_result' = ErrorResult(file_info', filename)
    /\ UNCHANGED <<orchVars, jsonVars, chain, filename, today, configVars, mainVars, dateVars>>

\* parse_filename on its own.
ParseFilename ==
    /\ pc = "parse_filename"
    /\ file_info = NoFileInfo
    /\ file_info' = parse_filename(filename, today)
    /\ UNCHANGED <<orchVars, jsonVars, sumVars, filename, today, configVars, mainVars,
                 dateVars>>

\* ------------------------------------------------ main and setup_sidebar
\* The number of files main accepts in one submission.
FileLimit == 10

\* The keys of model_descriptions, in the order of the dict.
description_order ==
    <<"openai", "claude", "claude3_5", "google", "openai_o1", "openai_o1-mini",
      "claude3_5_v2", "openai_o3_mini", "gemini_2.0_flash", "claude3_7">>

\* list(get_available_models().keys()): the described aliases the mapping
\* has, in the order of the descriptions.
available_model_names(model_mapping) ==
    SelectSeq(description_order, LAMBDA k : k \in DOMAIN model_mapping)

\* The texts a prompt can be: the default prompt of setup_sidebar, a text
\* the operator wrote, the empty text, and the template of the summarizer.
default_news_prompt == "default_news_prompt"

EditedPrompt == "edited"

NoPrompt == ""

NEWS_SUMMARY_PROMPT == "NEWS_SUMMARY_PROMPT"

NoWidgets ==
    [mode_selection |-> "none", picked |-> <<>>, customize_prompt |-> FALSE,
     text_area |-> NoPrompt]

\* What the widgets of the sidebar can hold: one alias in Single mode, any
\* selection (the empty one too) in Multi mode; the text area only exists
\* when the prompt is customized.
PromptWidgets ==
    {[customize_prompt |-> TRUE, text_area |-> t] :
        t \in {default_news_prompt, EditedPrompt, NoPrompt}}
    \cup {[customize_prompt |-> FALSE, text_area |-> NoPrompt]}

WidgetValues(names) ==
    {[mode_selection |-> "Single", picked |-> <<names[i]>>,
      customize_prompt |-> pw.customize_prompt, text_area |-> pw.text_area] :
        i \in 1..Len(names), pw \in PromptWidgets}
    \cup
    {[mode_selection |-> "Multi", picked |-> sel,
      customize_prompt |-> pw.customize_prompt, text_area |-> pw.text_area] :
        sel \in DistinctSeqs(Range(names), 0, Len(names)), pw \in PromptWidgets}

no_default_selection(names) == <<>>

\* selected_models = [model_names[0]]
default_selection(names) == <<names[1]>>

\* The model list setup_sidebar returns for the widget values w.
sidebar_models(names, w) ==
    IF w.mode_selection = "Multi" /\ w.picked = <<>>
    THEN default_selection(names)
    ELSE w.picked

prompt_or_none(customize_prompt, text_area) ==
    IF customize_prompt THEN text_area ELSE NoPrompt

\* The template setup_sidebar returns.
sidebar_prompt(customize_prompt, text_area) ==
    IF customize_prompt THEN text_area ELSE default_news_prompt

\* The template summarize_article builds its chain from.
prompt_template(custom_prompt) ==
    IF custom_prompt # NoPrompt THEN custom_prompt ELSE NEWS_SUMMARY_PROMPT

NoCall == [called |-> FALSE, files |-> 0, models |-> <<>>, user_prompt |-> NoPrompt]

\* The numbers of files the uploader can hold.
UploadCounts == {0, 1, FileLimit, FileLimit + 1}

\* The list a pass over n files returns, by file and pass.
PassResults(n, run) == [i \in 1..n |-> [filename |-> i, pass |-> run]]

\* No run of main is under way.
MainIdle ==
    /\ model_names = <<>>
    /\ main_pc = "off"
    /\ script_runs = 0
    /\ summaries = <<>>
    /\ processing = FALSE
    /\ widgets = NoWidgets
    /\ selected_models = <<>>
    /\ user_prompt = NoPrompt
    /\ handed = NoCall
    /\ prompt_used = "none"
    /\ event = "none"
    /\ before = <<>>

\* init_session_state, display_header and setup_sidebar. With no alias to
\* offer, setup_sidebar raises and the run ends there.
SetupSidebar ==
    /\ main_pc = "start"
    /\ IF model_names = <<>>
       THEN /\ main_pc' = "end"
            /\ event' = "sidebar_raised"
            /\ UNCHANGED <<widgets, selected_models, user_prompt>>
       ELSE /\ \E w \in WidgetValues(model_names) :
                  /\ widgets' = w
                  /\ selected_models' = sidebar_models(model_names, w)
                  /\ user_prompt' = sidebar_prompt(w.customize_prompt, w.text_area)
            /\ main_pc' = "uploader"
            /\ UNCHANGED event
    /\ UNCHANGED <<model_names, script_runs, summaries, processing, handed, prompt_used,
                   before>>
    /\ UNCHANGED <<orchVars, jsonVars, sumVars, nameVars, configVars, dateVars>>

\* The uploader and the start button of main, up to the call of
\* process_uploaded_files.
Submit ==
    /\ main_pc = "uploader"
    /\ \E n \in UploadCounts, pressed \in BOOLEAN :
          IF n = 0 \/ ~pressed \/ processing
          THEN /\ main_pc' = "results"
               /\ UNCHANGED <<processing, handed, event>>
          ELSE IF n > FileLimit
          THEN /\ main_pc' = "results"
               /\ event' = "rejected_files"
               /\ UNCHANGED <<processing, handed>>
          ELSE IF Len(selected_models) = 0
          THEN /\ main_pc' = "results"
               /\ event' = "rejected_models"
               /\ UNCHANGED <<processing, handed>>
          ELSE /\ processing' = TRUE
               /\ handed' = [called |-> TRUE, files |-> n, models |-> selected_models,
                             user_prompt |-> user_prompt]
               /\ event' = "started"
               /\ main_pc' = "running"
    /\ UNCHANGED <<model_names, script_runs, summaries, widgets, selected_models,
                   user_prompt, prompt_used, before>>
    /\ UNCHANGED <<orchVars, jsonVars, sumVars, nameVars, configVars, dateVars>>

PassRaisesWithoutFinally ==
    /\ main_pc = "running"
    /\ event' = "raised"
    /\ main_pc' = "results"
    /\ UNCHANGED <<model_names, script_runs, summaries, processing, widgets,
                   selected_models, user_prompt, handed, prompt_used, before>>
    /\ UNCHANGED <<orchVars, jsonVars, sumVars, nameVars, configVars, dateVars>>

PassRaisesClearing ==
    /\ main_pc = "running"
    /\ processing' = FALSE
    /\ summaries' = <<>>
    /\ event' = "raised"
    /\ main_pc' = "results"
    /\ UNCHANGED <<model_names, script_runs, widgets, selected_models, user_prompt,
                   handed, prompt_used, before>>
    /\ UNCHANGED <<orchVars, jsonVars, sumVars, nameVars, configVars, dateVars>>

\* process_uploaded_files returns: the try body and the finally of main.
PassReturns ==
    /\ main_pc = "running"
    /\ prompt_used' = prompt_template(handed.user_prompt)
    /\ summaries' = PassResults(handed.files, script_runs)
    /\ processing' = FALSE
    /\ event' = "returned"
    /\ main_pc' = "results"
    /\ UNCHANGED <<model_names, script_runs, widgets, selected_models, user_prompt,
                   handed, before>>
    /\ UNCHANGED <<orchVars, jsonVars, sumVars, nameVars, configVars, dateVars>>

\* process_uploaded_files raises: the except and the finally of main.
PassRaises ==
    /\ main_pc = "running"
    /\ processing' = FALSE
    /\ event' = "raised"
    /\ main_pc' = "results"
    /\ UNCHANGED <<model_names, script_runs, summaries, widgets, selected_models,
                   user_prompt, handed, prompt_used, before>>
    /\ UNCHANGED <<orchVars, jsonVars, sumVars, nameVars, configVars, dateVars>>

\* The result section of main: nothing when summaries is empty; otherwise
\* the report, which returns or raises, and after it the clear button.
ShowResults ==
    /\ main_pc = "results"
    /\ \E display \in {"returns", "raises"}, clear \in BOOLEAN :
          IF summaries # <<>> /\ display = "returns" /\ clear
          THEN /\ summaries' = <<>>
               /\ event' = "cleared"
          ELSE UNCHANGED <<summaries, event>>
    /\ main_pc' = "end"
    /\ UNCHANGED <<model_names, script_runs, processing, widgets, selected_models,
                   user_prompt, handed, prompt_used, before>>
    /\ UNCHANGED <<orchVars, jsonVars, sumVars, nameVars, configVars, dateVars>>

\* The next interaction runs the script again: the locals of main are new,
\* the session state is kept.
Rerun ==
    /\ main_pc = "end"
    /\ script_runs < MaxRuns
    /\ script_runs' = script_runs + 1
    /\ main_pc' = "start"
    /\ widgets' = NoWidgets
    /\ selected_models' = <<>>
    /\ user_prompt' = NoPrompt
    /\ handed' = NoCall
    /\ prompt_used' = "none"
    /\ event' = "none"
    /\ before' = summaries
    /\ UNCHANGED <<model_names, summaries, processing>>
    /\ UNCHANGED <<orchVars, jsonVars, sumVars, nameVars, configVars, dateVars>>

\* ------------------------------------------------ get_default_date_range
\* today.weekday(), Monday 0 to Sunday 6.
weekday(day) == day % 7

days_to_next_tuesday(today_weekday) == (1 - today_weekday) % 7

\* days_since_last_monday
days_since_last_monday(today_weekday) == today_weekday + 7

\* days_to_this_tuesday
days_to_this_tuesday(today_weekday) == 1 - today_weekday

get_default_date_range(day) ==
    [last_monday |-> day - days_since_last_monday(weekday(day)),
     this_tuesday |-> day + days_to_this_tuesday(weekday(day))]

NoRange == [last_monday |-> 0 - 1, this_tuesday |-> 0 - 1]

DateIdle ==
    /\ date_today = 0
    /\ date_range = NoRange

GetDefaultDateRange ==
    /\ main_pc = "date"
    /\ date_range = NoRange
    /\ date_range' = get_default_date_range(date_today)
    /\ UNCHANGED <<orchVars, jsonVars, sumVars, nameVars, configVars, mainVars, date_today>>

\* ------------------------------------------------------- specifications
\* One pass of process_uploaded_files followed by the report.
Init == OrchInit /\ JsonIdle /\ SumIdle /\ NameIdle /\ ConfigIdle /\ MainIdle /\ DateIdle

Next ==
    \/ LoadDocument
    \/ ReportProgress
    \/ CreateLLM
    \/ SummarizeArticle
    \/ AppendAndUnlink
    \/ Return
    \/ DisplayHtmlReport

Spec == Init /\ [][Next]_vars

\* The two file names summarize_article is looked at with: one of the
\* expected shape and one that is not.
SampleNames ==
    {<<"a", "_", "0", "6", "1", "5", "_", "b", "_", "c", ".", "p", "d", "f">>,
     <<"a", ".", "p", "d", "f">>}

\* summarize_article on every reply of up to MaxRawLen tokens and on every
\* way the chain can fail.
InitJson ==
    /\ OrchIdle
    /\ chain \in ChainBehaviours
    /\ raw \in (IF chain[2] = "returns" THEN RawTexts ELSE {<<>>})
    /\ llm_summary = NotYet
    /\ final_result = NoFinalResult
    /\ filename \in SampleNames
    /\ today = <<"1", "1", "/", "0", "2">>
    /\ file_info = NoFileInfo
    /\ ConfigIdle
    /\ MainIdle
    /\ DateIdle

NextJson == ExtractJson \/ ChainRaises

SpecJson == InitJson /\ [][NextJson]_vars

\* parse_filename on every file name of Filenames.
InitFilename ==
    /\ OrchAt("parse_filename")
    /\ JsonIdle
    /\ SumIdle
    /\ filename \in Filenames
    /\ today \in Todays
    /\ file_info = NoFileInfo
    /\ ConfigIdle
    /\ MainIdle
    /\ DateIdle

NextFilename == ParseFilename

SpecFilename == InitFilename /\ [][NextFilename]_vars

\* ModelConfig on every combination of config file, environment and secrets
\* store, followed by one query.
InitConfig ==
    /\ OrchAt("config")
    /\ JsonIdle
    /\ SumIdle
    /\ NameIdle
    /\ cfg_file \in ConfigFiles
    /\ env \in Environments
    /\ secrets \in SecretStores
    /\ config = NoConfig
    /\ answer = NoAnswer
    /\ MainIdle
    /\ DateIdle

NextConfig ==
    \/ LoadConfig
    \/ GetActualModel
    \/ GetOpenaiConfig
    \/ GetModelInfo
    \/ DebugModelConfig
    \/ WorkUnit

SpecConfig == InitConfig /\ [][NextConfig]_vars

\* The same with no config file, and with the API key, any text of up to
\* MaxKeyLen characters, given by the environment or by the secrets store.
InitKey ==
    /\ OrchAt("config")
    /\ JsonIdle
    /\ SumIdle
    /\ NameIdle
    /\ cfg_file = NoFile
    /\ \E k \in KeyTexts :
          \/ env = [NoEnv EXCEPT !.OPENAI_API_KEY = Val(k)] /\ secrets = NoSecrets
          \/ env = NoEnv /\ secrets = [NoSecrets EXCEPT !.API_KEY = Val(k)]
    /\ config = NoConfig
    /\ answer = NoAnswer
    /\ MainIdle
    /\ DateIdle

SpecKey == InitKey /\ [][NextConfig]_vars

\* main over a session of up to MaxRuns script runs, for each table of
\* models the configuration can hold.
Registries == {pwc_model, FileTable, SecretTable, EmptyTable}

InitMain ==
    /\ OrchAt("main")
    /\ JsonIdle
    /\ SumIdle
    /\ NameIdle
    /\ ConfigIdle
    /\ DateIdle
    /\ model_names \in {available_model_names(t) : t \in Registries}
    /\ main_pc = "start"
    /\ script_runs = 1
    /\ summaries = <<>>
    /\ processing = FALSE
    /\ widgets = NoWidgets
    /\ selected_models = <<>>
    /\ user_prompt = NoPrompt
    /\ handed = NoCall
    /\ prompt_used = "none"
    /\ event = "none"
    /\ before = <<>>

NextMain ==
    \/ SetupSidebar
    \/ Submit
    \/ PassReturns
    \/ PassRaises
    \/ ShowResults
    \/ Rerun

SpecMain == InitMain /\ [][NextMain]_vars

\* get_default_date_range on every day of the calendar from the second
\* week on.
InitDate ==
    /\ OrchAt("date")
    /\ JsonIdle
    /\ SumIdle
    /\ NameIdle
    /\ ConfigIdle
    /\ model_names = <<>>
    /\ main_pc = "date"
    /\ script_runs = 0
    /\ summaries = <<>>
    /\ processing = FALSE
    /\ widgets = NoWidgets
    /\ selected_models = <<>>
    /\ user_prompt = NoPrompt
    /\ handed = NoCall
    /\ prompt_used = "none"
    /\ event = "none"
    /\ before = <<>>
    /\ date_today \in 7..MaxDay
    /\ date_range = NoRange

NextDate == GetDefaultDateRange

SpecDate == InitDate /\ [][NextDate]_vars

\* ------------------------------------------------------------ the claims
Returned == pc \in {"done", "shown"}

\* The documents the outer loop has finished with.
Processed == {i \in 1..Len(uploaded_files) : i < fi}

\* The positions of results that hold a record of document name.
ResultsOf(name) == {k \in 1..Len(results) : results[k].filename = name}

\* The work units that have completed: the finished ones, and the
\* len(models) units of every document whose text could not be extracted.
Completed ==
    Len(finished)
    + Len(models) * Cardinality({i \in DOMAIN extracted : extracted[i] = "failed"})

UnlinkFailures == Cardinality({i \in DOMAIN unlinked : unlinked[i] = "failed"})

\* Every entry recorded for the unit (name, model): in the file_results in
\* hand and in results.
RecordedEntries(name, model) ==
    (IF file_results.filename = name /\ model \in DOMAIN file_results.models
     THEN {file_results.models[model]} ELSE {})
    \cup {results[k].models[model] :
            k \in {j \in ResultsOf(name) : model \in DOMAIN results[j].models}}

\* C1: when process_uploaded_files returns, results holds exactly one
\* FileResult per uploaded document, in upload order, whatever failed
\* (text extraction, model call, temp-file cleanup).
C1_OneResultPerDocument ==
    Returned =>
        /\ Len(results) = Len(uploaded_files)
        /\ \A i \in 1..Len(results) : results[i].filename = uploaded_files[i]

\* C2: for every document whose text was extracted, the FileResult the model
\* loop built holds exactly one entry for each selected model, each entry
\* under its own alias and from exactly one work unit, whichever calls
\* raised; the loop in hand has an entry for every model it has passed; and
\* when the pass returns every document has been processed.
C2_EveryModelHasOneEntry ==
    /\ \A k \in 1..Len(results) :
          results[k].status # "failed" =>
              /\ DOMAIN results[k].models = Range(models)
              /\ \A m \in DOMAIN results[k].models :
                    /\ results[k].models[m].user_model = m
                    /\ Cardinality({u \in DOMAIN finished :
                                      /\ finished[u].file = results[k].filename
                                      /\ finished[u].model = m}) = 1
    /\ \A i \in Processed :
          extracted[i] = "ok" =>
              Cardinality({k \in ResultsOf(CurrentFile(i)) :
                             results[k].status # "failed"}) = 1
    /\ pc \in {"models", "create", "invoke"} =>
          DOMAIN file_results.models = {m \in Range(models) : IndexOf(models, m) < mi}
    /\ Returned => \A i \in 1..Len(uploaded_files) : extracted[i] # "pending"

\* C2's case: three models, the second one's call raised, the other two
\* succeeded, and the next document was processed as well.
C2_Witness ==
    /\ Returned
    /\ Len(models) = 3
    /\ Len(results) = 2
    /\ results[1].status # "failed"
    /\ results[1].models[models[1]].state = "success"
    /\ results[1].models[models[2]].state = "error"
    /\ results[1].models[models[3]].state = "success"
    /\ results[2].status # "failed"
    /\ DOMAIN results[2].models = Range(models)

\* C3: when the backend call raised for a work unit, the entry recorded for
\* the unit has the failed status the rest of the system tests for
\* (status = 'failed') and a populated error.
C3_BackendFailureRecordedAsFailed ==
    \A u \in DOMAIN finished :
        finished[u].outcome = "backend_raise" =>
            /\ RecordedEntries(finished[u].file, finished[u].model) # {}
            /\ \A e \in RecordedEntries(finished[u].file, finished[u].model) :
                  e.status = "failed" /\ e.error

\* C4: a FileResult is in the aggregate report if and only if at least one
\* of its work units succeeded.
C4_InReportIffSomeUnitSucceeded ==
    pc = "shown" =>
        \A k \in 1..Len(results) :
            (results[k].filename \in Range(report.files))
            <=> (\E u \in DOMAIN finished :
                    /\ finished[u].file = results[k].filename
                    /\ finished[u].outcome = "ok")

\* The (file, model) pairs that passed the report's filter.
SuccessfulPairs ==
    {p \in (Range(uploaded_files) \X Aliases) :
        \E k \in 1..Len(results) :
            /\ results[k].filename = p[1]
            /\ InReport(results[k])
            /\ p[2] \in successful_models(results[k])}

BlockPairs(blocks) == {<<blocks[b].file, blocks[b].model>> : b \in 1..Len(blocks)}

\* C5: in multi-model mode the report and the export render exactly one
\* model-labelled block for each (file, model) pair with a successful
\* result, and rendering does not raise.
C5_MultiModeRendersEveryPair ==
    (pc = "shown" /\ report.multi) =>
        /\ ~report.raised
        /\ BlockPairs(report.blocks) = SuccessfulPairs
        /\ Len(report.blocks) = Cardinality(SuccessfulPairs)
        /\ \A b \in 1..Len(report.blocks) : report.blocks[b].labelled
        /\ report.exported
        /\ report.export = report.blocks

\* C6: the temporary file of a document is gone once the document has been
\* processed, on every path; none is left when the pass returns.
C6_TempFileReleased ==
    \A i \in Processed : CurrentFile(i) \notin tmp_files

\* C7: a document whose text extraction failed has exactly one FileResult,
\* with failed status, the error and an empty per_model mapping; no work
\* unit of it was started; the counter has advanced by len(models) for it
\* (the counter is the units started plus len(models) for every run of the
\* outer except handler); and every later document is processed.
C7_ExtractionFailureSkipsOnlyThatDocument ==
    /\ \A i \in Processed :
          extracted[i] = "failed" =>
              /\ Cardinality(ResultsOf(CurrentFile(i))) = 1
              /\ \A k \in ResultsOf(CurrentFile(i)) :
                    /\ results[k].status = "failed"
                    /\ results[k].error
                    /\ DOMAIN results[k].models = {}
              /\ \A u \in DOMAIN started : started[u].file # CurrentFile(i)
    /\ current_task =
          Len(started)
          + Len(models) * Cardinality({i \in DOMAIN extracted : extracted[i] = "failed"})
          + Len(models) * UnlinkFailures
    /\ Returned => \A i \in 1..Len(uploaded_files) : extracted[i] # "pending"

\* C7's case: the first document could not be read, the second one was
\* processed with every model.
C7_Witness ==
    /\ Returned
    /\ Len(uploaded_files) = 2
    /\ Len(models) >= 2
    /\ extracted[1] = "failed"
    /\ extracted[2] = "ok"
    /\ results[1].status = "failed"
    /\ DOMAIN results[2].models = Range(models)
    /\ current_task = 2 * Len(models)

\* C8, as claimed: when a progress report has just been made with the value
\* k, exactly k work units have completed.
C8_ReportedAfterUnitFinished ==
    pc = "create" => Completed = progress_shown.task

\* C8, as amended: a progress report shows current_task of
\* len(uploaded_files) * len(models), names the unit that is about to run,
\* and is made before that unit runs: with the value k reported, the unit it
\* counts has not finished, and exactly k - 1 - len(models) * c units have
\* completed, c being the documents whose unlink failed (k - 1 when none).
C8_ReportedBeforeUnitRuns ==
    pc = "create" =>
        /\ progress_shown.visible
        /\ progress_shown.task = current_task
        /\ progress_shown.total = Len(uploaded_files) * Len(models)
        /\ Unit(progress_shown.file, progress_shown.model) = started[Len(started)]
        /\ \A u \in DOMAIN finished :
              Unit(finished[u].file, finished[u].model)
                  # Unit(progress_shown.file, progress_shown.model)
        /\ Completed = progress_shown.task - 1 - Len(models) * UnlinkFailures

\* C8's case: a report other than the first, after units have completed and
\* a document has been skipped.
C8_Witness ==
    /\ pc = "create"
    /\ progress_shown.task >= 4
    /\ Len(finished) >= 1
    /\ \E i \in DOMAIN extracted : extracted[i] = "failed"
    /\ UnlinkFailures = 0
    /\ Completed = progress_shown.task - 1

\* The rank of a unit in the order (upload index, selection index).
FileIndex(name) == CHOOSE i \in 1..Len(uploaded_files) : uploaded_files[i] = name

Before(u, v) ==
    \/ FileIndex(u.file) < FileIndex(v.file)
    \/ /\ u.file = v.file
       /\ IndexOf(models, u.model) < IndexOf(models, v.model)

\* C9: work units run one at a time in the order (upload index, selection
\* index): at most one unit is in flight, units finish in the order they
\* start, and when a unit starts, the units started before it are exactly
\* the units of earlier readable documents and the earlier-selected models
\* of its own document, all of them finished.
C9_StrictlySequential ==
    /\ Len(started) - Len(finished) \in {0, 1}
    /\ (Len(started) > Len(finished)) <=> (pc \in {"create", "invoke"})
    /\ \A k \in DOMAIN finished :
          Unit(finished[k].file, finished[k].model) = started[k]
    /\ \A k \in DOMAIN started :
          {started[j] : j \in 1..(k - 1)}
          = {u \in {Unit(CurrentFile(i), m) :
                      i \in {x \in 1..Len(uploaded_files) : extracted[x] = "ok"},
                      m \in Range(models)} :
                Before(u, started[k])}

\* C9's case: a unit of the second document in flight after the units of
\* the first, with the models selected in an order that is not sorted.
C9_Witness ==
    /\ pc = "invoke"
    /\ Len(models) = 3
    /\ models[1] = "openai"
    /\ models[2] = "claude"
    /\ Len(finished) = 4
    /\ started[Len(started)] = Unit(2, "claude")

\* ------------------------------------------------- C10, under SpecJson
Count(s, p, q, ch) == Cardinality({j \in p..q : s[j] = ch})

\* Whether s[p..q] is the first balanced brace-delimited span of s.
IsFirstBalanced(s, p, q) ==
    /\ p = find(s, "{") + 1
    /\ p >= 1
    /\ q \in p..Len(s)
    /\ Count(s, p, q, "{") = Count(s, p, q, "}")
    /\ \A r \in p..(q - 1) : Count(s, p, r, "{") > Count(s, p, r, "}")

\* C10: for a reply holding a balanced {...} span followed by further text
\* that contains a brace, llm_summary is what parsing the first balanced
\* span gives.
C10_FirstBalancedSpanParsed ==
    llm_summary.done =>
        \A p, q \in 1..Len(raw) :
            (/\ IsFirstBalanced(raw, p, q)
             /\ \E r \in (q + 1)..Len(raw) : raw[r] \in {"{", "}"})
            => llm_summary = (IF IsJson(SubSeq(raw, p, q))
                              THEN Parsed(SubSeq(raw, p, q)) ELSE Fallback)

\* ------------------------------------------- C11 to C14, under SpecJson
ChainReturned == final_result.returned /\ chain[2] = "returns"

NoBraces(s) == \A i \in 1..Len(s) : s[i] \notin {"{", "}"}

\* Whether the outermost object of the well-formed text s has a member with
\* one of the given keys.
HasKey(s, members) == \E j \in 1..Len(s) : Depth(s, j) = 1 /\ s[j] \in members

\* C11: when the chain returns a reply that holds no brace, or whose
\* brace-delimited text is not well-formed JSON, summarize_article returns a
\* record whose two summary fields are the fixed messages of the fallback
\* dict and whose state is still "success".
C11_UnparsableReplyGivesFallback ==
    (ChainReturned /\ (NoBraces(raw) \/ ~IsJson(json_str(raw))))
    => /\ final_result.core = "fallback_core"
       /\ final_result.detail = "fallback_detail"
       /\ final_result.state = "success"

\* A reply with braces whose brace-delimited text is malformed has been
\* summarised.
C11_Witness ==
    /\ ChainReturned
    /\ ~NoBraces(raw)
    /\ ~IsJson(json_str(raw))
    /\ ~llm_summary.parsed

\* C12 as stated: when the reply is well-formed JSON that lacks one or both
\* of the two keys, both summary fields are the fixed messages of the
\* fallback dict.
C12_MissingKeyGivesFallback ==
    (/\ ChainReturned
     /\ IsJson(json_str(raw))
     /\ (\/ ~HasKey(json_str(raw), CoreMembers)
         \/ ~HasKey(json_str(raw), DetailMembers)))
    => /\ final_result.core = "fallback_core"
       /\ final_result.detail = "fallback_detail"

\* C12 amended: when the reply is well-formed JSON, a key that is missing
\* gives its field the default of that key ("요약 없음" for the core summary,
\* "내용 없음" for the details), a key that is present gives its field the
\* parsed value, and the state is "success".
C12_MissingKeyGivesItsDefault ==
    (ChainReturned /\ IsJson(json_str(raw)))
    => /\ llm_summary.parsed
       /\ final_result.state = "success"
       /\ IF HasKey(json_str(raw), CoreMembers)
          THEN final_result.core \in {"A", "fallback_core"}
          ELSE final_result.core = "no_summary"
       /\ IF HasKey(json_str(raw), DetailMembers)
          THEN final_result.detail \in {"B", "fallback_detail"}
          ELSE final_result.detail = "no_detail"

\* A well-formed reply with the core summary and without the details has
\* been summarised.
C12_Witness ==
    /\ ChainReturned
    /\ IsJson(json_str(raw))
    /\ HasKey(json_str(raw), CoreMembers)
    /\ ~HasKey(json_str(raw), DetailMembers)
    /\ final_result.core = "A"

\* Whether one of the two branches of summarize_article can be taken.
CanComplete ==
    \/ chain[2] = "returns" /\ ~llm_summary.done
    \/ chain[2] \in {"raises_template", "raises_invoke"}

\* C13: summarize_article is total.  Whatever the chain does (returns a
\* reply, parsable or not, raises when the template is built, raises when
\* invoked) a call that has not returned can take one of its two branches,
\* and the record it returns holds both summary fields, a state, and the
\* metadata parse_filename derives from the file name.
C13_SummarizeArticleTotal ==
    /\ ~final_result.returned => CanComplete
    /\ final_result.returned =>
        LET info == parse_filename(filename, today)
        IN  /\ final_result.outlet = info.outlet
            /\ final_result.date = info.date
            /\ final_result.group_tag = info.group_tag
            /\ final_result.headline = info.headline
            /\ final_result.parse_succeeded = info.parse_succeeded
            /\ final_result.original = filename
            /\ final_result.core # "absent"
            /\ final_result.detail # "absent"
            /\ final_result.state = (IF chain[2] = "returns" THEN "success" ELSE "error")

\* A call whose custom template could not be built has returned the error
\* record for a file name of the expected shape.
C13_Witness ==
    /\ final_result.returned
    /\ chain = <<"malformed", "raises_template">>
    /\ final_result.state = "error"
    /\ final_result.parse_succeeded
    /\ final_result.headline = <<"c">>

\* C14: the fallback dict written out as JSON text and fed through the
\* extraction step is parsed, and parsing gives back the same two values.
C14_FallbackRoundTrip ==
    (ChainReturned /\ raw = FallbackText)
    => /\ llm_summary.parsed
       /\ llm_summary.core = Fallback.core
       /\ llm_summary.detail = Fallback.detail
       /\ final_result.core = Fallback.core
       /\ final_result.detail = Fallback.detail

\* The fallback dict as JSON text has been through the extraction step.
C14_Witness ==
    /\ ChainReturned
    /\ raw = FallbackText
    /\ llm_summary.text = FallbackText

\* --------------------------------------- C15 to C17, under SpecFilename
NameParsed == file_info # NoFileInfo

\* The positions of the underscores of s, and the n-th of them.
Underscores(s) == {i \in 1..Len(s) : s[i] = "_"}

NthUnderscore(s, n) ==
    CHOOSE i \in Underscores(s) : Cardinality({j \in Underscores(s) : j < i}) = n - 1

\* s has at least four "_"-delimited segments.
FourSegments(s) == Cardinality(Underscores(s)) >= 3

\* The first three segments of such an s, and what follows the third
\* underscore.
FirstSegment(s) == SubSeq(s, 1, NthUnderscore(s, 1) - 1)

SecondSegment(s) == SubSeq(s, NthUnderscore(s, 1) + 1, NthUnderscore(s, 2) - 1)

ThirdSegment(s) == SubSeq(s, NthUnderscore(s, 2) + 1, NthUnderscore(s, 3) - 1)

RestAfterThird(s) == SubSeq(s, NthUnderscore(s, 3) + 1, Len(s))

FourDigits(seg) == Len(seg) = 4 /\ \A i \in 1..4 : seg[i] \in DigitChars

PdfExtension == <<".", "p", "d", "f">>

FileInfoKeys == {"outlet", "date", "group_tag", "headline", "original", "parse_succeeded"}

\* C15: for a file name whose stem has at least four "_"-delimited segments
\* and whose second segment is exactly four digits, parse_filename returns
\* parse_succeeded = true, the first segment as outlet, the second segment
\* as "MM/DD", the third segment as group tag, and the remaining segments
\* rejoined with underscores as headline.
C15_WellFormedNameParsed ==
    (/\ NameParsed
     /\ FourSegments(stem(filename))
     /\ FourDigits(SecondSegment(stem(filename))))
    => LET st == stem(filename)
           mmdd == SecondSegment(st)
       IN  /\ file_info.parse_succeeded
           /\ file_info.outlet = FirstSegment(st)
           /\ file_info.date = <<mmdd[1], mmdd[2], "/", mmdd[3], mmdd[4]>>
           /\ file_info.group_tag = ThirdSegment(st)
           /\ file_info.headline = RestAfterThird(st)

\* A name of five segments with a four-digit date has been parsed: the
\* headline holds an underscore.
C15_Witness ==
    /\ NameParsed
    /\ file_info.parse_succeeded
    /\ file_info.outlet = <<"a">>
    /\ file_info.date = <<"0", "6", "/", "1", "5">>
    /\ Underscores(file_info.headline) # {}

\* C16: for a file name whose stem has at least four segments and whose
\* date segment is not a four-digit numeral, parse_filename returns the
\* fallback record: parse_succeeded = false, the whole stem as headline, the
\* group tag "기타" and today's date.
C16_BadDateGivesFallbackRecord ==
    (/\ NameParsed
     /\ FourSegments(stem(filename))
     /\ ~FourDigits(SecondSegment(stem(filename))))
    => /\ ~file_info.parse_succeeded
       /\ file_info.headline = stem(filename)
       /\ file_info.group_tag = Other
       /\ file_info.date = today

\* C17: parse_filename always returns a record with every field, and for a
\* file name whose stem has fewer than four "_"-delimited segments the
\* record has parse_succeeded = false, the file name without its extension
\* as headline, the group tag "기타" and today's date as "MM/DD".
C17_ShortNameGivesFallbackRecord ==
    /\ ~NameParsed => pc = "parse_filename"
    /\ NameParsed =>
        /\ DOMAIN file_info = FileInfoKeys
        /\ file_info.original = filename
        /\ ~FourSegments(stem(filename)) =>
            /\ ~file_info.parse_succeeded
            /\ file_info.headline = stem(filename)
            /\ (/\ Len(filename) > 4
                /\ SubSeq(filename, Len(filename) - 3, Len(filename)) = PdfExtension)
               => file_info.headline \o PdfExtension = filename
            /\ file_info.group_tag = Other
            /\ file_info.date = today
            /\ Len(file_info.date) = 5
            /\ file_info.date[3] = "/"

\* A name of two segments with the extension has been parsed.
C17_Witness ==
    /\ NameParsed
    /\ ~file_info.parse_succeeded
    /\ Cardinality(Underscores(stem(filename))) = 1
    /\ file_info.headline \o PdfExtension = filename
    /\ file_info.date = <<"0", "1", "/", "3", "1">>

\* ----------------------------------------- C18 and C19, under SpecConfig
\* C18: get_actual_model returns the identifier the configured mapping
\* gives an alias it holds, and the alias itself for an alias it does not
\* hold (an absent mapping holds none).
C18_AliasLookupOrIdentity ==
    answer.query = "get_actual_model" =>
        IF config.pwc_model.set /\ answer.user_model \in DOMAIN config.pwc_model.table
        THEN answer.actual_model = config.pwc_model.table[answer.user_model]
        ELSE answer.actual_model = answer.user_model

\* An alias that a non-empty configured mapping does not hold has been
\* looked up.
C18_Witness ==
    /\ answer.query = "get_actual_model"
    /\ config.pwc_model.set
    /\ "openai" \in DOMAIN config.pwc_model.table
    /\ answer.user_model = "gpt-5"
    /\ answer.actual_model = "gpt-5"

\* The texts the variables of a layer are set to.
TextsOf(layer) == {v.text : v \in {w \in layer : w.set}}

FileDefines(v) == cfg_file.kind = "present" /\ v.set

\* The values the precedence order (defaults, config file, environment,
\* secrets store) allows for the API key: those of the highest layer that
\* defines it.
KeyAllowed ==
    IF secrets.API_KEY.set THEN {secrets.API_KEY.text}
    ELSE IF TextsOf({env.API_KEY, env.OPENAI_API_KEY}) # {}
    THEN TextsOf({env.API_KEY, env.OPENAI_API_KEY})
    ELSE IF FileDefines(cfg_file.api_key) THEN {cfg_file.api_key.text}
    ELSE {DefaultKey, <<>>}

\* The same for the base URL.
UrlAllowed ==
    IF secrets.BASE_URL.set THEN {secrets.BASE_URL.text}
    ELSE IF TextsOf({env.BASE_URL, env.OPENAI_BASE_URL, env.API_BASE}) # {}
    THEN TextsOf({env.BASE_URL, env.OPENAI_BASE_URL, env.API_BASE})
    ELSE IF FileDefines(cfg_file.base_url) \/ FileDefines(cfg_file.api_base)
    THEN {v.text : v \in {w \in {cfg_file.base_url, cfg_file.api_base} : w.set}}
    ELSE {DefaultUrl, OpenAIUrl}

\* C19: the API key and the base URL get_openai_config returns are each the
\* value of the highest-precedence source that defines it, in the ascending
\* order defaults, config file, environment variables, secrets store.
C19_HighestPrecedenceSourceWins ==
    answer.query = "get_openai_config" =>
        /\ answer.api_key \in KeyAllowed
        /\ answer.base_url \in UrlAllowed

\* ------------------------------------------------- C20, under SpecKey
\* The API key that is configured.
ConfiguredKey ==
    IF secrets.API_KEY.set THEN secrets.API_KEY.text ELSE env.OPENAI_API_KEY.text

\* Whether text holds key as a contiguous part.
Contains(text, key) ==
    \E i \in 1..(Len(text) - Len(key) + 1) : SubSeq(text, i, i + Len(key) - 1) = key

\* The preview without its trailing "...".
ShownPart(preview) == SubSeq(preview, 1, Len(preview) - 3)

\* C20: for every configured key, of any length, the api_key_preview of
\* get_model_info shows a proper prefix of the key and does not hold the
\* whole key.
C20_PreviewIsProperPrefix ==
    (answer.query = "get_model_info" /\ ConfiguredKey # <<>>)
    => /\ Len(ShownPart(answer.api_key_preview)) < Len(ConfiguredKey)
       /\ ShownPart(answer.api_key_preview)
              = SubSeq(ConfiguredKey, 1, Len(ShownPart(answer.api_key_preview)))
       /\ ~Contains(answer.api_key_preview, ConfiguredKey)

\* ------------------------------------- C21 to C23 and C27, under Spec
ReportRendered == pc = "shown" /\ report.rendered /\ ~report.warning

\* The aliases that have a work unit whose backend call returned.
SucceededAliases ==
    {finished[u].model : u \in {k \in DOMAIN finished : finished[k].outcome = "ok"}}

\* C21: the sequence of (file, model) blocks of the interactive report
\* equals the sequence of blocks of the export, with the files in upload
\* order and, within a file, the models in sorted alias order.
C21_ReportAndExportSameBlocks ==
    ReportRendered =>
        /\ report.export = report.blocks
        /\ \A a, b \in 1..Len(report.blocks) :
              a < b =>
                  \/ FileIndex(report.blocks[a].file) < FileIndex(report.blocks[b].file)
                  \/ /\ report.blocks[a].file = report.blocks[b].file
                     /\ IndexOf(AliasOrder, report.blocks[a].model)
                            < IndexOf(AliasOrder, report.blocks[b].model)

\* C22: the report is in single-model mode exactly when one alias has a
\* successful result, and in multi-model mode exactly when two or more
\* have; an alias that failed everywhere does not count.
C22_ModeFollowsSucceededAliases ==
    ReportRendered =>
        /\ report.multi <=> Cardinality(SucceededAliases) >= 2
        /\ ~report.multi <=> Cardinality(SucceededAliases) = 1

\* C23: when no document of a non-empty result list was processed
\* successfully, display_html_report warns, renders no block, produces no
\* export and does not raise.
C23_WarningWhenNothingSucceeded ==
    (pc = "shown" /\ results # <<>> /\ SucceededAliases = {})
    => /\ report.warning
       /\ report.blocks = <<>>
       /\ ~report.exported
       /\ report.export = <<>>
       /\ ~report.raised

\* C27: the work-unit counter never exceeds the planned total N x M, the
\* fraction shown stays within [0, 1], and the counter equals N x M when
\* the pass returns, whatever failed.
C27_CounterWithinPlannedTotal ==
    /\ current_task >= 0
    /\ current_task <= total_tasks
    /\ progress_shown.task <= progress_shown.total
    /\ Returned => current_task = total_tasks

\* ------------------------------------------------- C28, under SpecConfig
\* C28: the backend identifier recorded with a model entry is the
\* identifier the backend was invoked with, also when create_llm fell
\* back to its default model.
C28_RecordedModelIsInvokedModel ==
    (answer.query = "work_unit" /\ answer.invoked_model # "none")
    => answer.actual_model = answer.invoked_model

\* --------------------------------- C24 to C26 and C29, under SpecMain
\* C24: the model list handed to process_uploaded_files is never empty,
\* and an empty selection in Multi mode becomes the first alias offered.
C24_HandedModelListNeverEmpty ==
    /\ handed.called => Len(handed.models) >= 1 /\ handed.models = selected_models
    /\ (widgets.mode_selection = "Multi" /\ widgets.picked = <<>>)
       => selected_models = <<model_names[1]>>

C24_Witness ==
    /\ handed.called
    /\ widgets.mode_selection = "Multi"
    /\ widgets.picked = <<>>
    /\ handed.models = <<model_names[1]>>

\* C25 as stated: the summarizers of a pass build their prompt from the
\* operator's text when the prompt was customized, and from
\* NEWS_SUMMARY_PROMPT when it was not.
C25_BuiltInPromptWhenNotCustomized ==
    event = "returned" =>
        /\ (widgets.customize_prompt /\ widgets.text_area # NoPrompt)
           => prompt_used = widgets.text_area
        /\ ~widgets.customize_prompt => prompt_used = NEWS_SUMMARY_PROMPT

\* C25, amended: the summarizers of a pass build their prompt from the
\* operator's text when the prompt was customized and the text is not
\* empty, from the default prompt of setup_sidebar when it was not
\* customized, and from NEWS_SUMMARY_PROMPT only when the text is empty.
C25_PromptFromHandedTemplate ==
    event = "returned" =>
        /\ (widgets.customize_prompt /\ widgets.text_area # NoPrompt)
           => prompt_used = widgets.text_area
        /\ ~widgets.customize_prompt => prompt_used = default_news_prompt
        /\ (widgets.customize_prompt /\ widgets.text_area = NoPrompt)
           => prompt_used = NEWS_SUMMARY_PROMPT

C25_Witness ==
    /\ event = "returned"
    /\ ~widgets.customize_prompt
    /\ prompt_used = default_news_prompt

\* C26: summaries changes only by being replaced with the list a pass
\* returned or by being emptied by the clear button; a rejected submission
\* and a pass that raises leave it as it was.
C26_SummariesChangeOnlyByPassOrClear ==
    [][ /\ summaries' # summaries
           => \/ /\ main_pc = "running"
                 /\ event' = "returned"
                 /\ summaries' = PassResults(handed.files, script_runs)
              \/ /\ main_pc = "results"
                 /\ event' = "cleared"
                 /\ summaries' = <<>>
        /\ (event' # event /\ event' \in {"rejected_files", "rejected_models", "raised"})
           => summaries' = summaries ]_vars

C26_Witness ==
    /\ event = "raised"
    /\ before # <<>>
    /\ summaries = before

\* C29: processing is True only while a pass runs, and False once the
\* submission has been handled: returned, raised or rejected.
C29_ProcessingOnlyWhilePassRuns ==
    /\ processing => main_pc = "running"
    /\ event \in {"returned", "raised", "rejected_files", "rejected_models"} => ~processing

C29_Witness ==
    /\ main_pc = "results"
    /\ event \in {"returned", "raised"}
    /\ handed.called
    /\ ~processing

\* ------------------------------------------------------ C30, under SpecDate
\* C30: on every weekday the range starts on the Monday of the previous
\* week and ends on the Tuesday of the current week, so the start is not
\* after the end and the end is 8 days after the start.
C30_DefaultRangeMondayToTuesday ==
    date_range # NoRange =>
        /\ date_range.last_monday % 7 = 0
        /\ date_range.last_monday \div 7 = (date_today \div 7) - 1
        /\ date_range.this_tuesday % 7 = 1
        /\ date_range.this_tuesday \div 7 = date_today \div 7
        /\ date_range.last_monday <= date_range.this_tuesday
        /\ date_range.this_tuesday - date_range.last_monday = 8

C30_Witness ==
    /\ date_range # NoRange
    /\ date_today % 7 = 6
    /\ date_range.this_tuesday < date_today

=============================================================================
